---- MODULE Spec2Model ----
(***************************************************************************)
(* The per-call relay session of src/index.js: the closure created by the  *)
(* '/media-stream' websocket route.  It bridges the telephony websocket    *)
(* (`connection`) and the realtime AI websocket (`openAiWs`).  Node runs   *)
(* every callback to completion, so each handler is one atomic action.     *)
(*                                                                         *)
(* A send() on a websocket is recorded together with the readyState the    *)
(* socket had when send() was called.  The handlers never call send() on   *)
(* a CONNECTING socket; on a CLOSING/CLOSED socket the handler carries on  *)
(* after the call (the frame is not transmitted).                          *)
(***************************************************************************)
EXTENDS Integers, Sequences, FiniteSets, TLC

\* JavaScript null / undefined for the identifier-valued fields.
Null == "null"
\* responseStartTimestampTwilio is null (Unset) or a number t, written <<t>>,
\* so that null and 0 stay different values.
Unset == <<>>

\* Bounds of the model.
MaxMarks == 2
MaxMedia == 2

\* Inputs carried by the inbound events.
StreamSids == {"S1", "S2"}
ItemIds == {Null, "I1", "I2"}
Timestamps == {0, 100, 250}
MediaPayloads == {"AAA", "CCC"}
DeltaPayloads == {"", "QUJD", "BBB"}
AiOtherTypes == {"response.done", "session.created"}

VARIABLES
    streamSid,                      \* line 74
    latestMediaTimestamp,           \* line 75
    lastAssistantItem,              \* line 76
    markQueue,                      \* line 77
    responseStartTimestampTwilio,   \* line 78
    aiReadyState,                   \* openAiWs.readyState
    connReadyState,                 \* connection.readyState
    initTimer,                      \* the setTimeout(initializeSession, 100) of line 175
    telSent,                        \* connection.send() calls of the last handler
    aiSent,                         \* openAiWs.send() calls of the last handler
    lastEvent,                      \* the event the last handler processed
    mediaLog,                       \* history: inbound media events, in arrival order
    appendLog,                      \* history: payloads of the audio-append sends
    unacked,                        \* history: media chunks relayed and not yet acknowledged or flushed (a mark event
                                    \* acknowledges a chunk only if a mark was queued for it)
    utterance,                      \* history: is an AI utterance in flight, and how often it changed the start timestamp (2 = more than once)
    monotone,                       \* history: media timestamps never went backwards within a stream
    aiPrompted,                     \* history: the AI side has been given something to answer
    utteranceStart,                 \* history: latestMediaTimestamp at the first delta of the utterance in flight, <<t>> or Unset
    truncatedItem,                  \* history: the item named by the last truncate sent
    configSends                     \* history: how many times session.update was sent (2 = more than once)

vars == <<streamSid, latestMediaTimestamp, lastAssistantItem, markQueue, responseStartTimestampTwilio,
          aiReadyState, connReadyState, initTimer, telSent, aiSent, lastEvent,
          mediaLog, appendLog, unacked, utterance, monotone, aiPrompted,
          utteranceStart, truncatedItem, configSends>>

fieldVars == <<streamSid, latestMediaTimestamp, lastAssistantItem, markQueue, responseStartTimestampTwilio>>
historyVars == <<mediaLog, appendLog, unacked, utterance, monotone, aiPrompted,
                 utteranceStart, truncatedItem, configSends>>

\* ---------------------------------------------------------------------
\* Pure helpers

\* Buffer.from(delta, 'base64').toString('base64'): decodes and re-encodes.
\* "QUJD" is canonical base64 and comes back as it is; "BBB" decodes to two
\* bytes (0x04 0x10) and is re-encoded as "BBA=".
Base64RoundTrip(delta) ==
    IF delta = "BBB" THEN "BBA=" ELSE delta

\* !responseStartTimestampTwilio: null and 0 are both falsy.
StartTimestampFalsy(rst) ==
    rst = Unset \/ rst = <<0>>

\* const elapsedTime = latestMediaTimestamp - responseStartTimestampTwilio
ElapsedTime_Swapped(lmt, rst) ==
    rst[1] - lmt
ElapsedTime(lmt, rst) ==
    lmt - rst[1]

\* markQueue.length > 0 && responseStartTimestampTwilio != null
SpeechStartedGuard_NoQueueCheck ==
    responseStartTimestampTwilio # Unset
SpeechStartedGuard_Truthy ==
    Len(markQueue) > 0 /\ ~StartTimestampFalsy(responseStartTimestampTwilio)
SpeechStartedGuard ==
    Len(markQueue) > 0 /\ responseStartTimestampTwilio # Unset

\* openAiWs.readyState === WebSocket.OPEN, the check of the media case
AiReadyForAppend_Always ==
    TRUE
AiReadyForAppend ==
    aiReadyState = "OPEN"

\* A send() call and the readyState of the socket at the call.
TelSend(msg) == [msg |-> msg, readyState |-> connReadyState]
AiSend(msg) == [msg |-> msg, readyState |-> aiReadyState]

MediaEvent(sid, payload) == [event |-> "media", streamSid |-> sid, payload |-> payload]
MarkEvent(sid) == [event |-> "mark", streamSid |-> sid, name |-> "responsePart"]
ClearEvent(sid) == [event |-> "clear", streamSid |-> sid]

SessionUpdate == [type |-> "session.update"]
InitialConversationItem == [type |-> "conversation.item.create"]
ResponseCreate == [type |-> "response.create"]
AudioAppend(payload) == [type |-> "input_audio_buffer.append", audio |-> payload]
TruncateEvent(item, ms) ==
    [type |-> "conversation.item.truncate", item_id |-> item, content_index |-> 0, audio_end_ms |-> ms]

\* Bookkeeping common to every handler.
Handled(ev) ==
    lastEvent' = ev

\* ---------------------------------------------------------------------
Init ==
    /\ streamSid = Null
    /\ latestMediaTimestamp = 0
    /\ lastAssistantItem = Null
    /\ markQueue = <<>>
    /\ responseStartTimestampTwilio = Unset
    /\ aiReadyState = "CONNECTING"
    /\ connReadyState = "OPEN"
    /\ initTimer = "none"
    /\ telSent = <<>>
    /\ aiSent = <<>>
    /\ lastEvent = [src |-> "none", type |-> "connected"]
    /\ mediaLog = <<>>
    /\ appendLog = <<>>
    /\ unacked = 0
    /\ utterance = [active |-> FALSE, stamps |-> 0]
    /\ monotone = TRUE
    /\ aiPrompted = FALSE
    /\ utteranceStart = Unset
    /\ truncatedItem = Null
    /\ configSends = 0

\* ---------------------------------------------------------------------
\* The AI websocket: open, the delayed initializeSession, inbound messages

AiInbound ==
    aiReadyState \in {"OPEN", "CLOSING"}

\* openAiWs.on('open'): schedules initializeSession 100 ms later.
AiOpen ==
    /\ aiReadyState = "CONNECTING"
    /\ aiReadyState' = "OPEN"
    /\ initTimer' = "scheduled"
    /\ telSent' = <<>>
    /\ aiSent' = <<>>
    /\ Handled([src |-> "ai", type |-> "open"])
    /\ UNCHANGED <<fieldVars, connReadyState, historyVars>>

\* initializeSession, then sendInitialConversationItem: three sends, no
\* readyState check, and the timer is never cancelled.
InitializeSession_Repeats ==
    /\ initTimer = "scheduled"
    /\ initTimer' = "scheduled"
    /\ aiSent' = <<AiSend(SessionUpdate), AiSend(InitialConversationItem), AiSend(ResponseCreate)>>
    /\ telSent' = <<>>
    /\ aiPrompted' = (aiPrompted \/ aiReadyState = "OPEN")
    /\ configSends' = IF configSends < 2 THEN configSends + 1 ELSE 2
    /\ Handled([src |-> "timer", type |-> "initializeSession"])
    /\ UNCHANGED <<fieldVars, aiReadyState, connReadyState,
                   mediaLog, appendLog, unacked, utterance, monotone,
                   utteranceStart, truncatedItem>>
InitializeSession ==
    /\ initTimer = "scheduled"
    /\ initTimer' = "fired"
    /\ aiSent' = <<AiSend(SessionUpdate), AiSend(InitialConversationItem), AiSend(ResponseCreate)>>
    /\ telSent' = <<>>
    /\ aiPrompted' = (aiPrompted \/ aiReadyState = "OPEN")
    /\ configSends' = IF configSends < 2 THEN configSends + 1 ELSE 2
    /\ Handled([src |-> "timer", type |-> "initializeSession"])
    /\ UNCHANGED <<fieldVars, aiReadyState, connReadyState,
                   mediaLog, appendLog, unacked, utterance, monotone,
                   utteranceStart, truncatedItem>>

\* sendMark(connection, streamSid): what it sends and what it leaves in markQueue.
SendMarkSent ==
    IF streamSid # Null THEN <<TelSend(MarkEvent(streamSid))>> ELSE <<>>
SendMarkQueue ==
    IF streamSid # Null THEN Append(markQueue, "responsePart") ELSE markQueue

\* openAiWs.on('message'), response.type === 'response.audio.delta'.
\* item = Null stands for a delta without item_id; delta = "" is falsy and
\* fails the `&& response.delta` test.
AiAudioDelta(delta, item) ==
    /\ AiInbound
    /\ aiPrompted
    /\ unacked < MaxMarks
    /\ IF delta # ""
       THEN /\ telSent' = <<TelSend(MediaEvent(streamSid, Base64RoundTrip(delta)))>> \o SendMarkSent
            /\ responseStartTimestampTwilio' =
                   IF StartTimestampFalsy(responseStartTimestampTwilio)
                   THEN <<latestMediaTimestamp>>
                   ELSE responseStartTimestampTwilio
            /\ lastAssistantItem' = IF item # Null THEN item ELSE lastAssistantItem
            /\ markQueue' = SendMarkQueue
            /\ unacked' = unacked + 1
            /\ utterance' =
                   [active |-> TRUE,
                    stamps |-> IF responseStartTimestampTwilio' # responseStartTimestampTwilio
                                  /\ utterance.stamps < 2
                               THEN utterance.stamps + 1
                               ELSE utterance.stamps]
            /\ utteranceStart' = IF ~utterance.active \/ utteranceStart = Unset
                                 THEN <<latestMediaTimestamp>>
                                 ELSE utteranceStart
       ELSE /\ telSent' = <<>>
            /\ UNCHANGED <<responseStartTimestampTwilio, lastAssistantItem, markQueue, unacked,
                           utterance, utteranceStart>>
    /\ aiSent' = <<>>
    /\ Handled([src |-> "ai", type |-> "response.audio.delta", delta |-> delta, item_id |-> item])
    /\ UNCHANGED <<streamSid, latestMediaTimestamp, aiReadyState, connReadyState, initTimer,
                   mediaLog, appendLog, monotone, aiPrompted, truncatedItem, configSends>>

\* openAiWs.on('message'), 'input_audio_buffer.speech_started':
\* handleSpeechStartedEvent.
AiSpeechStarted ==
    /\ AiInbound
    /\ aiPrompted
    /\ IF SpeechStartedGuard
       THEN /\ aiSent' =
                   IF lastAssistantItem # Null
                   THEN <<AiSend(TruncateEvent(lastAssistantItem,
                                  ElapsedTime(latestMediaTimestamp, responseStartTimestampTwilio)))>>
                   ELSE <<>>
            /\ telSent' = <<TelSend(ClearEvent(streamSid))>>
            /\ markQueue' = <<>>
            /\ lastAssistantItem' = Null
            /\ responseStartTimestampTwilio' = Unset
            /\ unacked' = 0
            /\ utterance' = [active |-> FALSE, stamps |-> 0]
            /\ utteranceStart' = Unset
            /\ truncatedItem' = IF lastAssistantItem # Null THEN lastAssistantItem ELSE truncatedItem
       ELSE /\ aiSent' = <<>>
            /\ telSent' = <<>>
            /\ UNCHANGED <<markQueue, lastAssistantItem, responseStartTimestampTwilio, unacked,
                           utterance, utteranceStart, truncatedItem>>
    /\ Handled([src |-> "ai", type |-> "input_audio_buffer.speech_started"])
    /\ UNCHANGED <<streamSid, latestMediaTimestamp, aiReadyState, connReadyState, initTimer,
                   mediaLog, appendLog, monotone, aiPrompted, configSends>>

\* openAiWs.on('message'), any other event type: logged at most.
\* 'response.done' is how the AI side reports that an utterance is complete.
AiOther(type) ==
    /\ AiInbound
    /\ aiPrompted
    /\ telSent' = <<>>
    /\ aiSent' = <<>>
    /\ utterance' = IF type = "response.done" THEN [active |-> FALSE, stamps |-> 0] ELSE utterance
    /\ utteranceStart' = IF type = "response.done" THEN Unset ELSE utteranceStart
    /\ Handled([src |-> "ai", type |-> type])
    /\ UNCHANGED <<fieldVars, aiReadyState, connReadyState, initTimer,
                   mediaLog, appendLog, unacked, monotone, aiPrompted, truncatedItem, configSends>>

\* openAiWs.on('message') with a payload JSON.parse rejects: caught and logged.
AiMalformed ==
    /\ AiInbound
    /\ telSent' = <<>>
    /\ aiSent' = <<>>
    /\ Handled([src |-> "ai", type |-> "malformed"])
    /\ UNCHANGED <<fieldVars, aiReadyState, connReadyState, initTimer, historyVars>>

\* openAiWs.on('error'): logs; the socket is then on its way to closed.
AiError ==
    /\ aiReadyState \in {"CONNECTING", "OPEN"}
    /\ aiReadyState' = "CLOSING"
    /\ telSent' = <<>>
    /\ aiSent' = <<>>
    /\ Handled([src |-> "ai", type |-> "error"])
    /\ UNCHANGED <<fieldVars, connReadyState, initTimer, historyVars>>

\* openAiWs.on('close'): logs, and nothing else.
AiClose ==
    /\ aiReadyState \in {"OPEN", "CLOSING"}
    /\ aiReadyState' = "CLOSED"
    /\ telSent' = <<>>
    /\ aiSent' = <<>>
    /\ Handled([src |-> "ai", type |-> "close"])
    /\ UNCHANGED <<fieldVars, connReadyState, initTimer, historyVars>>

\* ---------------------------------------------------------------------
\* The telephony websocket: inbound messages and close

\* connection.on('message'), case 'media'.
MediaCase(timestamp, payload) ==
    /\ connReadyState = "OPEN"
    /\ latestMediaTimestamp' = timestamp
    /\ aiSent' = IF AiReadyForAppend THEN <<AiSend(AudioAppend(payload))>> ELSE <<>>
    /\ telSent' = <<>>
    /\ monotone' = (monotone /\ timestamp >= latestMediaTimestamp)
    /\ aiPrompted' = (aiPrompted \/ aiReadyState = "OPEN")
    /\ Handled([src |-> "telephony", type |-> "media", timestamp |-> timestamp, payload |-> payload])
    /\ UNCHANGED <<streamSid, lastAssistantItem, markQueue, responseStartTimestampTwilio,
                   aiReadyState, connReadyState, initTimer, unacked, utterance,
                   utteranceStart, truncatedItem, configSends>>

TelMedia(timestamp, payload) ==
    /\ MediaCase(timestamp, payload)
    /\ UNCHANGED <<mediaLog, appendLog>>

\* The same handler, with the arrivals and the audio-append sends recorded.
TelMediaLogged(timestamp, payload) ==
    /\ Len(mediaLog) < MaxMedia
    /\ MediaCase(timestamp, payload)
    /\ mediaLog' = Append(mediaLog, [payload |-> payload, aiOpen |-> (aiReadyState = "OPEN")])
    /\ appendLog' = appendLog \o [i \in 1..Len(aiSent') |-> aiSent'[i].msg.audio]

\* connection.on('message'), case 'start'.
TelStart_KeepsMediaTimestamp(sid) ==
    /\ connReadyState = "OPEN"
    /\ streamSid' = sid
    /\ responseStartTimestampTwilio' = Unset
    /\ telSent' = <<>>
    /\ aiSent' = <<>>
    /\ utteranceStart' = Unset
    /\ Handled([src |-> "telephony", type |-> "start", streamSid |-> sid])
    /\ UNCHANGED <<latestMediaTimestamp, lastAssistantItem, markQueue, aiReadyState, connReadyState,
                   initTimer, mediaLog, appendLog, unacked, utterance, monotone, aiPrompted,
                   truncatedItem, configSends>>
TelStart(sid) ==
    /\ connReadyState = "OPEN"
    /\ streamSid' = sid
    /\ responseStartTimestampTwilio' = Unset
    /\ latestMediaTimestamp' = 0
    /\ telSent' = <<>>
    /\ aiSent' = <<>>
    /\ utteranceStart' = Unset
    /\ Handled([src |-> "telephony", type |-> "start", streamSid |-> sid])
    /\ UNCHANGED <<lastAssistantItem, markQueue, aiReadyState, connReadyState, initTimer,
                   mediaLog, appendLog, unacked, utterance, monotone, aiPrompted,
                   truncatedItem, configSends>>

\* connection.on('message'), case 'mark'.
TelMark_ClearsQueue ==
    /\ connReadyState = "OPEN"
    /\ markQueue' = <<>>
    /\ unacked' = IF Len(markQueue) > 0 THEN unacked - 1 ELSE unacked
    /\ telSent' = <<>>
    /\ aiSent' = <<>>
    /\ Handled([src |-> "telephony", type |-> "mark"])
    /\ UNCHANGED <<streamSid, latestMediaTimestamp, lastAssistantItem, responseStartTimestampTwilio,
                   aiReadyState, connReadyState, initTimer,
                   mediaLog, appendLog, utterance, monotone, aiPrompted,
                   utteranceStart, truncatedItem, configSends>>
TelMark ==
    /\ connReadyState = "OPEN"
    /\ markQueue' = IF Len(markQueue) > 0 THEN Tail(markQueue) ELSE markQueue
    /\ unacked' = IF Len(markQueue) > 0 THEN unacked - 1 ELSE unacked
    /\ telSent' = <<>>
    /\ aiSent' = <<>>
    /\ Handled([src |-> "telephony", type |-> "mark"])
    /\ UNCHANGED <<streamSid, latestMediaTimestamp, lastAssistantItem, responseStartTimestampTwilio,
                   aiReadyState, connReadyState, initTimer,
                   mediaLog, appendLog, utterance, monotone, aiPrompted,
                   utteranceStart, truncatedItem, configSends>>

\* connection.on('message'), default case ('connected', 'stop', ...): logged.
TelOther ==
    /\ connReadyState = "OPEN"
    /\ telSent' = <<>>
    /\ aiSent' = <<>>
    /\ Handled([src |-> "telephony", type |-> "other"])
    /\ UNCHANGED <<fieldVars, aiReadyState, connReadyState, initTimer, historyVars>>

\* connection.on('message') with a payload JSON.parse rejects: caught and logged.
TelMalformed_Uncaught ==
    /\ connReadyState = "OPEN"
    /\ connReadyState' = "CLOSED"
    /\ telSent' = <<>>
    /\ aiSent' = <<>>
    /\ Handled([src |-> "telephony", type |-> "malformed"])
    /\ UNCHANGED <<fieldVars, aiReadyState, initTimer, historyVars>>
TelMalformed ==
    /\ connReadyState = "OPEN"
    /\ telSent' = <<>>
    /\ aiSent' = <<>>
    /\ Handled([src |-> "telephony", type |-> "malformed"])
    /\ UNCHANGED <<fieldVars, aiReadyState, connReadyState, initTimer, historyVars>>

\* connection.on('close'): closes the AI websocket only if it is OPEN.
ConnClose ==
    /\ connReadyState = "OPEN"
    /\ connReadyState' = "CLOSED"
    /\ aiReadyState' = IF aiReadyState = "OPEN" THEN "CLOSING" ELSE aiReadyState
    /\ telSent' = <<>>
    /\ aiSent' = <<>>
    /\ Handled([src |-> "telephony", type |-> "close"])
    /\ UNCHANGED <<fieldVars, initTimer, historyVars>>

\* ---------------------------------------------------------------------
Next ==
    \/ AiOpen
    \/ InitializeSession
    \/ \E delta \in DeltaPayloads, item \in ItemIds : AiAudioDelta(delta, item)
    \/ AiSpeechStarted
    \/ \E type \in AiOtherTypes : AiOther(type)
    \/ AiMalformed
    \/ AiError
    \/ AiClose
    \/ \E timestamp \in Timestamps, payload \in MediaPayloads : TelMedia(timestamp, payload)
    \/ \E sid \in StreamSids : TelStart(sid)
    \/ TelMark
    \/ TelOther
    \/ TelMalformed
    \/ ConnClose

Spec == Init /\ [][Next]_vars

\* The relay of caller audio with its history recorded: the handlers that
\* send, or that change a readyState, around the logged media handler.  The
\* media case reads nothing a delta writes, so one delta input is enough here.
RelayNext ==
    \/ AiOpen
    \/ InitializeSession
    \/ \E delta \in {"QUJD"}, item \in {"I1"} : AiAudioDelta(delta, item)
    \/ AiSpeechStarted
    \/ AiError
    \/ AiClose
    \/ \E timestamp \in Timestamps, payload \in MediaPayloads : TelMediaLogged(timestamp, payload)
    \/ \E sid \in StreamSids : TelStart(sid)
    \/ TelMark
    \/ ConnClose

RelaySpec == Init /\ [][RelayNext]_vars

TypeOK ==
    /\ streamSid \in StreamSids \cup {Null}
    /\ latestMediaTimestamp \in Timestamps
    /\ lastAssistantItem \in ItemIds
    /\ Len(markQueue) <= MaxMarks
    /\ responseStartTimestampTwilio \in {Unset} \cup {<<t>> : t \in Timestamps}
    /\ aiReadyState \in {"CONNECTING", "OPEN", "CLOSING", "CLOSED"}
    /\ connReadyState \in {"OPEN", "CLOSED"}
    /\ initTimer \in {"none", "scheduled", "fired"}

\* ---------------------------------------------------------------------
\* Properties

IsSpeechStarted(ev) == ev.src = "ai" /\ ev.type = "input_audio_buffer.speech_started"
IsDelta(ev) == ev.src = "ai" /\ ev.type = "response.audio.delta"
IsMedia(ev) == ev.src = "telephony" /\ ev.type = "media"
IsStart(ev) == ev.src = "telephony" /\ ev.type = "start"
IsTruncate(m) == m.type = "conversation.item.truncate"
IsAppend(m) == m.type = "input_audio_buffer.append"

\* C1: nothing (media, mark or clear) is sent to the telephony websocket
\* while streamSid is still unset.
C1_NoTelephonySendBeforeStreamSid ==
    \A i \in DOMAIN telSent : telSent[i].msg.streamSid # Null

\* C2: a close of either websocket leaves the other one closed (or closing)
\* too: telephony close closes the AI side, AI close closes the telephony side.
C2_CloseClosesOtherSide ==
    /\ (lastEvent.src = "telephony" /\ lastEvent.type = "close") => aiReadyState # "OPEN"
    /\ (lastEvent.src = "ai" /\ lastEvent.type = "close") => connReadyState # "OPEN"

\* C3: speech_started processed with markQueue empty or the start timestamp
\* unset changes none of the five session fields and sends nothing.
C3_SpeechStartedNoOp ==
    [][ (IsSpeechStarted(lastEvent')
           /\ (markQueue = <<>> \/ responseStartTimestampTwilio = Unset))
        => /\ streamSid' = streamSid
           /\ latestMediaTimestamp' = latestMediaTimestamp
           /\ lastAssistantItem' = lastAssistantItem
           /\ markQueue' = markQueue
           /\ responseStartTimestampTwilio' = responseStartTimestampTwilio
           /\ telSent' = <<>>
           /\ aiSent' = <<>> ]_vars

\* A speech_started that was a no-op although a start timestamp and an item
\* were recorded: the mark queue had been acknowledged down to empty.
C3_Witness ==
    /\ IsSpeechStarted(lastEvent)
    /\ markQueue = <<>>
    /\ responseStartTimestampTwilio # Unset
    /\ lastAssistantItem # Null
    /\ telSent = <<>>
    /\ aiSent = <<>>

\* C4: speech_started processed with markQueue non-empty and the start
\* timestamp set (0 included) empties markQueue, unsets lastAssistantItem and
\* the start timestamp, sends exactly one clear with the current streamSid,
\* and exactly one truncate if an item was recorded, none otherwise.
C4_SuccessfulInterruption ==
    [][ (IsSpeechStarted(lastEvent')
           /\ Len(markQueue) > 0 /\ responseStartTimestampTwilio # Unset)
        => /\ markQueue' = <<>>
           /\ lastAssistantItem' = Null
           /\ responseStartTimestampTwilio' = Unset
           /\ Len(telSent') = 1
           /\ telSent'[1].msg = [event |-> "clear", streamSid |-> streamSid]
           /\ IF lastAssistantItem # Null
              THEN Len(aiSent') = 1 /\ IsTruncate(aiSent'[1].msg)
              ELSE aiSent' = <<>> ]_vars

\* A successful interruption of an utterance whose start timestamp was 0:
\* the truncate carries the whole latestMediaTimestamp, here 100.
C4_Witness ==
    /\ IsSpeechStarted(lastEvent)
    /\ Len(telSent) = 1
    /\ telSent[1].msg.event = "clear"
    /\ Len(aiSent) = 1
    /\ IsTruncate(aiSent[1].msg)
    /\ latestMediaTimestamp = 100
    /\ aiSent[1].msg.audio_end_ms = 100
    /\ markQueue = <<>>

\* C5: every truncate sent names lastAssistantItem, content index 0 and
\* audio_end_ms = latestMediaTimestamp - responseStartTimestampTwilio as they
\* stood when the interruption was processed, and audio_end_ms is not
\* negative as long as media timestamps never went backwards within a stream.
C5_TruncateContents ==
    [][ \A i \in DOMAIN aiSent' :
          IsTruncate(aiSent'[i].msg)
          => /\ responseStartTimestampTwilio # Unset
             /\ aiSent'[i].msg.item_id = lastAssistantItem
             /\ aiSent'[i].msg.content_index = 0
             /\ aiSent'[i].msg.audio_end_ms
                  = latestMediaTimestamp - responseStartTimestampTwilio[1]
             /\ (monotone' => aiSent'[i].msg.audio_end_ms >= 0) ]_vars

\* start(S1), media(100), delta(I1), media(250), speech_started:
\* the truncate names I1 and 150 ms.
C5_Witness ==
    /\ IsSpeechStarted(lastEvent)
    /\ streamSid = "S1"
    /\ latestMediaTimestamp = 250
    /\ monotone
    /\ aiSent # <<>>
    /\ aiSent[1].msg = [type |-> "conversation.item.truncate", item_id |-> "I1",
                        content_index |-> 0, audio_end_ms |-> 150]

\* C6: the start timestamp is assigned at most once per utterance, and when
\* no utterance is in flight (none yet, or the last one completed or was
\* interrupted) it is unset.
C6_StartTimestampPerUtterance ==
    /\ utterance.stamps <= 1
    /\ ~utterance.active => responseStartTimestampTwilio = Unset

\* C7: markQueue is as long as the number of relayed media chunks not yet
\* acknowledged, and every relayed delta is followed by exactly one mark.
C7_MarkQueueCountsUnacked ==
    /\ Len(markQueue) = unacked
    /\ (IsDelta(lastEvent) /\ telSent # <<>>)
       => /\ Len(telSent) = 2
          /\ telSent[1].msg.event = "media"
          /\ telSent[2].msg.event = "mark"

\* C8: send() is called on a websocket only while that websocket is open.
C8_SendsOnlyWhenOpen ==
    /\ \A i \in DOMAIN telSent : telSent[i].readyState = "OPEN"
    /\ \A i \in DOMAIN aiSent : aiSent[i].readyState = "OPEN"

\* C9: the audio-append sends are exactly the media events that arrived
\* while the AI websocket was open, in arrival order, each with the payload
\* of its media event; a media event always updates latestMediaTimestamp and
\* sends one append when the AI websocket is open and nothing otherwise; no
\* other handler sends an append.
OpenArrival(m) == m.aiOpen
PayloadsOf(log) == [i \in 1..Len(log) |-> log[i].payload]
C9_AppendsAreOpenMediaInOrder ==
    /\ appendLog = PayloadsOf(SelectSeq(mediaLog, OpenArrival))
    /\ IsMedia(lastEvent)
       => /\ latestMediaTimestamp = lastEvent.timestamp
          /\ mediaLog # <<>>
          /\ aiSent = IF mediaLog[Len(mediaLog)].aiOpen
                      THEN <<[msg |-> [type |-> "input_audio_buffer.append",
                                       audio |-> lastEvent.payload],
                              readyState |-> "OPEN"]>>
                      ELSE <<>>
    /\ ~IsMedia(lastEvent) => \A i \in DOMAIN aiSent : ~IsAppend(aiSent[i].msg)

\* Two media events with different payloads, the first while the AI websocket
\* was still connecting (dropped), the second while it was open (forwarded).
C9_Witness ==
    /\ Len(mediaLog) = 2
    /\ ~mediaLog[1].aiOpen
    /\ mediaLog[2].aiOpen
    /\ mediaLog[1].payload # mediaLog[2].payload
    /\ appendLog = <<mediaLog[2].payload>>

\* C10: a start event stores its streamSid, sets latestMediaTimestamp to 0,
\* unsets the start timestamp and sends nothing, whatever the state before.
C10_StartResets ==
    [][ IsStart(lastEvent')
        => /\ streamSid' = lastEvent'.streamSid
           /\ latestMediaTimestamp' = 0
           /\ responseStartTimestampTwilio' = Unset
           /\ telSent' = <<>>
           /\ aiSent' = <<>> ]_vars

\* A second start, for another stream, arriving in the middle of an
\* utterance (marks outstanding, item recorded).
C10_Witness ==
    /\ IsStart(lastEvent)
    /\ streamSid = "S2"
    /\ Len(markQueue) > 0
    /\ lastAssistantItem # Null
    /\ latestMediaTimestamp = 0
    /\ responseStartTimestampTwilio = Unset

IsMark(ev) == ev.src = "telephony" /\ ev.type = "mark"
IsMalformed(ev) == ev.type = "malformed"
IsConfig(m) == m.type \in {"session.update", "conversation.item.create", "response.create"}

\* C11: a mark acknowledgment removes exactly the front token of a non-empty
\* markQueue and changes nothing when markQueue is empty; the other four
\* session fields are unchanged and nothing is sent.
C11_MarkPopsFront ==
    [][ IsMark(lastEvent')
        => /\ markQueue' = IF markQueue # <<>> THEN Tail(markQueue) ELSE <<>>
           /\ streamSid' = streamSid
           /\ latestMediaTimestamp' = latestMediaTimestamp
           /\ lastAssistantItem' = lastAssistantItem
           /\ responseStartTimestampTwilio' = responseStartTimestampTwilio
           /\ telSent' = <<>>
           /\ aiSent' = <<>> ]_vars

\* A mark acknowledged while two were outstanding: one is left.
C11_Witness ==
    /\ IsMark(lastEvent)
    /\ Len(markQueue) = 1
    /\ unacked = 1
    /\ responseStartTimestampTwilio # Unset

\* C12: an unparseable message on either websocket changes none of the five
\* session fields, sends nothing, closes neither websocket and leaves the
\* pending initializeSession timer as it was, so that every later event meets
\* the state it would have met without it.
C12_MalformedDropped ==
    [][ IsMalformed(lastEvent')
        => /\ streamSid' = streamSid
           /\ latestMediaTimestamp' = latestMediaTimestamp
           /\ lastAssistantItem' = lastAssistantItem
           /\ markQueue' = markQueue
           /\ responseStartTimestampTwilio' = responseStartTimestampTwilio
           /\ aiReadyState' = aiReadyState
           /\ connReadyState' = connReadyState
           /\ initTimer' = initTimer
           /\ telSent' = <<>>
           /\ aiSent' = <<>> ]_vars

\* An unparseable telephony message arriving in the middle of an utterance,
\* both websockets open.
C12_Witness ==
    /\ IsMalformed(lastEvent)
    /\ lastEvent.src = "telephony"
    /\ Len(markQueue) > 0
    /\ responseStartTimestampTwilio # Unset
    /\ lastAssistantItem # Null
    /\ aiReadyState = "OPEN"
    /\ connReadyState = "OPEN"

\* C13 (as claimed): whenever lastAssistantItem is set, some relayed media
\* chunk is still unacknowledged.
C13_ItemSetImpliesUnacked ==
    lastAssistantItem # Null => unacked > 0

\* C13 (amended): every truncate is sent while markQueue is non-empty, that
\* is while relayed audio is still unacknowledged, and names lastAssistantItem.
C13_TruncateWhileUnacked ==
    [][ \A i \in DOMAIN aiSent' :
          IsTruncate(aiSent'[i].msg)
          => /\ Len(markQueue) > 0
             /\ unacked > 0
             /\ lastAssistantItem # Null
             /\ aiSent'[i].msg.item_id = lastAssistantItem ]_vars

\* A truncate of item I2, sent on the second stream.
C13_Witness ==
    /\ IsSpeechStarted(lastEvent)
    /\ streamSid = "S2"
    /\ aiSent # <<>>
    /\ IsTruncate(aiSent[1].msg)
    /\ aiSent[1].msg.item_id = "I2"
    /\ unacked = 0

\* C14: the audio_end_ms of a truncate is latestMediaTimestamp at the
\* interruption minus latestMediaTimestamp at the first delta of the
\* utterance being interrupted.
C14_ElapsedSinceUtteranceStart ==
    [][ \A i \in DOMAIN aiSent' :
          (IsTruncate(aiSent'[i].msg) /\ utteranceStart # Unset)
          => aiSent'[i].msg.audio_end_ms = latestMediaTimestamp - utteranceStart[1] ]_vars

\* C15: a (non-empty) delta stamps the start timestamp with
\* latestMediaTimestamp only when it is unset and leaves any set value, 0
\* included, alone; it records its item_id if it has one and touches neither
\* latestMediaTimestamp nor streamSid.
C15_DeltaStampsOnlyWhenUnset ==
    [][ (IsDelta(lastEvent') /\ lastEvent'.delta # "")
        => /\ responseStartTimestampTwilio' =
                 IF responseStartTimestampTwilio = Unset
                 THEN <<latestMediaTimestamp>>
                 ELSE responseStartTimestampTwilio
           /\ lastAssistantItem' =
                 IF lastEvent'.item_id # Null THEN lastEvent'.item_id ELSE lastAssistantItem
           /\ latestMediaTimestamp' = latestMediaTimestamp
           /\ streamSid' = streamSid ]_vars

\* C16: once an item has been truncated, no later delta of that item is
\* relayed to the telephony websocket.
C16_NoAudioOfTruncatedItem ==
    [][ (IsDelta(lastEvent') /\ truncatedItem # Null /\ lastEvent'.item_id = truncatedItem)
        => telSent' = <<>> ]_vars

\* C17: session.update is sent at most once, never before the AI websocket
\* opened, and always as the first of exactly three sends of one handler:
\* session.update, conversation.item.create, response.create; once the
\* delayed initializeSession has run it has been sent exactly once.
C17_ConfigurationOnce ==
    /\ configSends <= 1
    /\ (configSends = 1) = (initTimer = "fired")
    /\ configSends = 1 => aiReadyState # "CONNECTING"
    /\ (\E i \in DOMAIN aiSent : IsConfig(aiSent[i].msg))
       => /\ lastEvent = [src |-> "timer", type |-> "initializeSession"]
          /\ [i \in DOMAIN aiSent |-> aiSent[i].msg]
               = << [type |-> "session.update"],
                    [type |-> "conversation.item.create"],
                    [type |-> "response.create"] >>

\* initializeSession has just run on an open AI websocket.
C17_Witness ==
    /\ lastEvent = [src |-> "timer", type |-> "initializeSession"]
    /\ configSends = 1
    /\ Len(aiSent) = 3
    /\ \A i \in DOMAIN aiSent : aiSent[i].readyState = "OPEN"

\* C19: once the telephony websocket has closed, the AI websocket is not
\* (or no longer) open and none of session.update, conversation.item.create,
\* response.create is sent.
C19_NothingAfterTelephonyClose ==
    connReadyState = "CLOSED"
    => /\ aiReadyState # "OPEN"
       /\ \A i \in DOMAIN aiSent : ~IsConfig(aiSent[i].msg)

\* C20: no audio append is sent before session.update has been sent.
C20_NoAppendBeforeConfiguration ==
    (\E i \in DOMAIN aiSent : IsAppend(aiSent[i].msg)) => configSends >= 1

====
